---- MODULE Spec2Model ----
(***************************************************************************)
(* Conway's Game of Life (src/cgol/game.py, class GameOfLife).             *)
(*                                                                         *)
(* The state is the object's fields (grid_size, cell_size, grid,           *)
(* window_alive, is_running), the position of run()'s frame loop (pc),     *)
(* the loop variable `event` of the for loop over pygame.event.get(), and  *)
(* the locals of apply_rules (new_grid, row, col).  probe is the call of    *)
(* count_neighbors made from outside the class, with the arguments it was  *)
(* given and what it returned, while no other call has followed it; run()  *)
(* makes no such call.                                                     *)
(*                                                                         *)
(* pygame.event.get() returns a finite list of input events; the model     *)
(* draws the events of that list one at a time while pc = "events" and     *)
(* ends the list with EventsDone.  Drawing (draw_toolbar, draw_grid,       *)
(* flash_button, display.flip, clock.tick) reads the state and changes     *)
(* none of it.                                                             *)
(*                                                                         *)
(* pre_grid, pre_running, pre2_grid, frame_grid, tog_grid and ticks are    *)
(* history variables: they record earlier values of the program's state    *)
(* and no action's guard or program-state update reads them:               *)
(*   pre_grid, pre_running  grid and is_running before the last dispatch   *)
(*   pre2_grid   the grid before the last two dispatches, when both were   *)
(*               the same click on a cell of the grid                      *)
(*   frame_grid  the grid when this frame's events were exhausted          *)
(*   tog_grid    the grid right after the frame's last event, when that    *)
(*               event toggled a cell while is_running                     *)
(*   ticks       the number of update_grid calls completed in this frame   *)
(***************************************************************************)
EXTENDS Integers, Sequences, FiniteSets, TLC

VARIABLES grid_size, cell_size, grid, window_alive, is_running,
          pc, event, new_grid, row, col, probe,
          pre_grid, pre_running, pre2_grid, frame_grid, tog_grid, ticks

vars == <<grid_size, cell_size, grid, window_alive, is_running,
          pc, event, new_grid, row, col, probe,
          pre_grid, pre_running, pre2_grid, frame_grid, tog_grid, ticks>>

prog == <<grid_size, cell_size, grid, window_alive, is_running>>

hist == <<pre_grid, pre_running, pre2_grid, frame_grid, tog_grid, ticks>>

(***************************************************************************)
(* Bounds of the model.                                                    *)
(***************************************************************************)
MaxGridSize == 3

GridSizes == 1..MaxGridSize

\* cell_size as constructed: the default of __init__ and the value of __main__
CellSizes == {15, 30}

(***************************************************************************)
(* Class constants.                                                        *)
(***************************************************************************)
TOOLBAR_HEIGHT == 30

BUTTON_HEIGHT == 25

BUTTON_WIDTH == 80

BUTTON_HEIGHT_PADDING == 5

BUTTON_WIDTH_PADDING == 10

\* DIRECTIONS with (0, 0), the cell itself, in the place of (0, 1)
DIRECTIONS_with_centre ==
    << <<-1, -1>>, <<-1, 0>>, <<-1, 1>>,
       <<0, -1>>,             <<0, 0>>,
       <<1, -1>>,  <<1, 0>>,  <<1, 1>> >>

DIRECTIONS ==
    << <<-1, -1>>, <<-1, 0>>, <<-1, 1>>,
       <<0, -1>>,             <<0, 1>>,
       <<1, -1>>,  <<1, 0>>,  <<1, 1>> >>

\* a value no grid equals: the history variables hold it when they record nothing
NoGrid == << >>

(***************************************************************************)
(* Events: pygame.QUIT, pygame.MOUSEBUTTONDOWN with its pos, and any other *)
(* event type (which run() ignores).  NoEvent: nothing dispatched yet in   *)
(* this frame.                                                             *)
(***************************************************************************)
NoEvent == [type |-> "none", x |-> 0, y |-> 0]

QuitEvent == [type |-> "QUIT", x |-> 0, y |-> 0]

OtherEvent == [type |-> "OTHER", x |-> 0, y |-> 0]

MouseEvent(x, y) == [type |-> "MOUSEBUTTONDOWN", x |-> x, y |-> y]

\* the last call from outside the class was not one of count_neighbors
NoProbe == [called |-> FALSE, row |-> 0, col |-> 0, result |-> 0]

\* pixel columns of the clicks: left of the window, the middle of every grid
\* column, the first pixel right of the grid, the middle of Pause and of End
ClickXs ==
    {-1} \cup {c * cell_size + cell_size \div 2 : c \in 0..(grid_size - 1)}
         \cup {grid_size * cell_size, 140, 230}

\* pixel rows of the clicks: the toolbar above the buttons, the toolbar inside
\* the buttons, the middle of every grid row, the first pixel below the grid
ClickYs ==
    {2, 15} \cup {TOOLBAR_HEIGHT + r * cell_size + cell_size \div 2 :
                      r \in 0..(grid_size - 1)}
            \cup {TOOLBAR_HEIGHT + grid_size * cell_size}

(***************************************************************************)
(* Pure functions of the class.                                            *)
(***************************************************************************)
make_clear_grid(n) ==
    [r \in 0..(n - 1) |-> [c \in 0..(n - 1) |-> 0]]

initialize_grid(n) == make_clear_grid(n)

\* pygame.Rect(left, top, width, height) of the three buttons
initialize_buttons ==
    [Start |-> [left |-> BUTTON_WIDTH_PADDING,
                top |-> BUTTON_HEIGHT_PADDING,
                width |-> BUTTON_WIDTH, height |-> BUTTON_HEIGHT],
     Pause |-> [left |-> 2 * BUTTON_WIDTH_PADDING + BUTTON_WIDTH,
                top |-> BUTTON_HEIGHT_PADDING,
                width |-> BUTTON_WIDTH, height |-> BUTTON_HEIGHT],
     End   |-> [left |-> 3 * BUTTON_WIDTH_PADDING + 2 * BUTTON_WIDTH,
                top |-> BUTTON_HEIGHT_PADDING,
                width |-> BUTTON_WIDTH, height |-> BUTTON_HEIGHT]]

\* pygame.Rect.collidepoint: left and top edges inside, right and bottom outside
collidepoint(rect, x, y) ==
    /\ rect.left <= x /\ x < rect.left + rect.width
    /\ rect.top <= y /\ y < rect.top + rect.height

\* the (r, c) count_neighbors reads, one for each direction in turn
neighbor_positions(n, r0, c0) ==
    [i \in 1..Len(DIRECTIONS) |->
        <<(r0 + DIRECTIONS[i][1]) % n, (c0 + DIRECTIONS[i][2]) % n>>]

\* the loop of count_neighbors from the i-th direction on
RECURSIVE count_from(_, _, _, _, _)
count_from(g, n, r0, c0, i) ==
    IF i > Len(DIRECTIONS) THEN 0
    ELSE LET dr == DIRECTIONS[i][1]
             dc == DIRECTIONS[i][2]
             r == (r0 + dr) % n
             c == (c0 + dc) % n
         IN  g[r][c] + count_from(g, n, r0, c0, i + 1)

\* count_neighbors on a bounded grid: neighbours beyond an edge are skipped
RECURSIVE count_from_nowrap(_, _, _, _, _)
count_from_nowrap(g, n, r0, c0, i) ==
    IF i > Len(DIRECTIONS) THEN 0
    ELSE LET r == r0 + DIRECTIONS[i][1]
             c == c0 + DIRECTIONS[i][2]
         IN  (IF 0 <= r /\ r < n /\ 0 <= c /\ c < n THEN g[r][c] ELSE 0)
             + count_from_nowrap(g, n, r0, c0, i + 1)

count_neighbors_nowrap(g, n, r0, c0) == count_from_nowrap(g, n, r0, c0, 1)

\* count_neighbors that also counts the cell itself (a (0, 0) direction)
count_neighbors_with_self(g, n, r0, c0) == count_from(g, n, r0, c0, 1) + g[r0 % n][c0 % n]

count_neighbors(g, n, r0, c0) == count_from(g, n, r0, c0, 1)

\* apply_rule with overpopulation from 3 neighbours on (>= 3 for > 3)
apply_rule_overpopulation_3(cell, neighbors) ==
    IF cell = 1 /\ (neighbors < 2 \/ neighbors >= 3) THEN 0
    ELSE IF cell = 0 /\ neighbors = 3 THEN 1
    ELSE cell

\* apply_rule without the reproduction branch
apply_rule_no_birth(cell, neighbors) ==
    IF cell = 1 /\ (neighbors < 2 \/ neighbors > 3) THEN 0
    ELSE cell

\* apply_rule with reproduction at up to 3 neighbours (<= 3 for == 3)
apply_rule_birth_up_to_3(cell, neighbors) ==
    IF cell = 1 /\ (neighbors < 2 \/ neighbors > 3) THEN 0
    ELSE IF cell = 0 /\ neighbors <= 3 THEN 1
    ELSE cell

\* the if / elif / else of apply_rules for one cell
apply_rule(cell, neighbors) ==
    IF cell = 1 /\ (neighbors < 2 \/ neighbors > 3) THEN 0
    ELSE IF cell = 0 /\ neighbors = 3 THEN 1
    ELSE cell

\* toggle_cell that subtracts 1 from the cell (self.grid[row][col] - 1)
toggle_cell_decrement(g, r, c) == [g EXCEPT ![r][c] = g[r][c] - 1]

\* toggle_cell that paints the cell ALIVE whatever it was
toggle_cell_set_alive(g, r, c) == [g EXCEPT ![r][c] = 1]

\* self.grid[row][col] = 1 - self.grid[row][col]
toggle_cell(g, r, c) == [g EXCEPT ![r][c] = 1 - g[r][c]]

(***************************************************************************)
(* Init: the object after __init__, run() not yet entered.                 *)
(***************************************************************************)
Init ==
    /\ grid_size \in GridSizes
    /\ cell_size \in CellSizes
    /\ grid = initialize_grid(grid_size)
    /\ window_alive = TRUE
    /\ is_running = FALSE
    /\ pc = "while"
    /\ event = NoEvent
    /\ new_grid = NoGrid
    /\ row = 0
    /\ col = 0
    /\ probe = NoProbe
    /\ pre_grid = NoGrid
    /\ pre_running = FALSE
    /\ pre2_grid = NoGrid
    /\ frame_grid = NoGrid
    /\ tog_grid = NoGrid
    /\ ticks = 0

(***************************************************************************)
(* The commands and the click handlers: each gives grid' and is_running'.  *)
(***************************************************************************)
start_simulation ==
    /\ is_running' = TRUE
    /\ grid' = grid

\* pause_simulation that flips is_running
pause_simulation_flips ==
    /\ is_running' = ~is_running
    /\ grid' = grid

pause_simulation ==
    /\ is_running' = FALSE
    /\ grid' = grid

\* end_simulation without its second assignment
end_simulation_keeps_running ==
    /\ grid' = make_clear_grid(grid_size)
    /\ is_running' = is_running

end_simulation ==
    /\ grid' = make_clear_grid(grid_size)
    /\ is_running' = FALSE

handle_toolbar_click(x, y) ==
    IF collidepoint(initialize_buttons.Start, x, y) THEN start_simulation
    ELSE IF collidepoint(initialize_buttons.Pause, x, y) THEN pause_simulation
    ELSE IF collidepoint(initialize_buttons.End, x, y) THEN end_simulation
    ELSE grid' = grid /\ is_running' = is_running

\* row and col of a click below the toolbar (// is floor division)
click_row(y) == (y - TOOLBAR_HEIGHT) \div cell_size

click_col(x) == x \div cell_size

in_grid(r, c) == 0 <= r /\ r < grid_size /\ 0 <= c /\ c < grid_size

\* handle_grid_click that edits the grid only while the simulation is stopped
handle_grid_click_when_stopped(x, y) ==
    /\ grid' = IF in_grid(click_row(y), click_col(x)) /\ ~is_running
               THEN toggle_cell(grid, click_row(y), click_col(x))
               ELSE grid
    /\ is_running' = is_running

\* handle_grid_click without the bounds test: the indices wrap onto the grid
handle_grid_click_wraps(x, y) ==
    /\ grid' = toggle_cell(grid, click_row(y) % grid_size, click_col(x) % grid_size)
    /\ is_running' = is_running

handle_grid_click(x, y) ==
    /\ grid' = IF in_grid(click_row(y), click_col(x))
               THEN toggle_cell(grid, click_row(y), click_col(x))
               ELSE grid
    /\ is_running' = is_running

\* handle_mouse_click that routes by x (x < TOOLBAR_HEIGHT for y < TOOLBAR_HEIGHT)
handle_mouse_click_by_x(x, y) ==
    IF x < TOOLBAR_HEIGHT
    THEN handle_toolbar_click(x, y)
    ELSE handle_grid_click(x, y)

handle_mouse_click(x, y) ==
    IF y < TOOLBAR_HEIGHT
    THEN handle_toolbar_click(x, y)
    ELSE handle_grid_click(x, y)

(***************************************************************************)
(* run(): the frame loop.                                                  *)
(***************************************************************************)
\* while self.window_alive: true, the frame starts with pygame.event.get()
WhileEnter ==
    /\ pc = "while"
    /\ window_alive
    /\ pc' = "events"
    /\ event' = NoEvent
    /\ pre_grid' = NoGrid
    /\ pre_running' = FALSE
    /\ pre2_grid' = NoGrid
    /\ frame_grid' = NoGrid
    /\ tog_grid' = NoGrid
    /\ ticks' = 0
    /\ UNCHANGED <<probe, prog, new_grid, row, col>>

\* while self.window_alive: false, pygame.quit() and run() returns
WhileExit ==
    /\ pc = "while"
    /\ ~window_alive
    /\ pc' = "done"
    /\ UNCHANGED <<probe, prog, event, new_grid, row, col, hist>>

\* the QUIT branch without its assignment
DispatchQuit_ignored ==
    /\ pc = "events"
    /\ event' = QuitEvent
    /\ pre_grid' = grid
    /\ pre_running' = is_running
    /\ pre2_grid' = NoGrid
    /\ tog_grid' = NoGrid
    /\ UNCHANGED <<probe, prog, pc, new_grid, row, col, frame_grid, ticks>>

\* the for loop takes a QUIT event
DispatchQuit ==
    /\ pc = "events"
    /\ event' = QuitEvent
    /\ window_alive' = FALSE
    /\ pre_grid' = grid
    /\ pre_running' = is_running
    /\ pre2_grid' = NoGrid
    /\ tog_grid' = NoGrid
    /\ UNCHANGED <<probe, grid_size, cell_size, grid, is_running, pc,
                   new_grid, row, col, frame_grid, ticks>>

\* the for loop takes a MOUSEBUTTONDOWN event at pixel (x, y)
DispatchMouse ==
    /\ pc = "events"
    /\ \E x \in ClickXs, y \in ClickYs :
          /\ event' = MouseEvent(x, y)
          /\ handle_mouse_click(x, y)
          /\ tog_grid' = IF /\ y >= TOOLBAR_HEIGHT
                            /\ in_grid(click_row(y), click_col(x))
                            /\ is_running
                         THEN grid'
                         ELSE NoGrid
          /\ pre2_grid' = IF /\ event = MouseEvent(x, y)
                             /\ y >= TOOLBAR_HEIGHT
                             /\ in_grid(click_row(y), click_col(x))
                          THEN pre_grid
                          ELSE NoGrid
    /\ pre_grid' = grid
    /\ pre_running' = is_running
    /\ UNCHANGED <<probe, grid_size, cell_size, window_alive, pc,
                   new_grid, row, col, frame_grid, ticks>>

\* the for loop takes an event of any other type: neither branch runs
DispatchOther ==
    /\ pc = "events"
    /\ event' = OtherEvent
    /\ pre_grid' = grid
    /\ pre_running' = is_running
    /\ pre2_grid' = NoGrid
    /\ tog_grid' = NoGrid
    /\ UNCHANGED <<probe, prog, pc, new_grid, row, col, frame_grid, ticks>>

\* the list of pygame.event.get() is exhausted
EventsDone ==
    /\ pc = "events"
    /\ pc' = "tick"
    /\ event' = NoEvent
    /\ pre_grid' = NoGrid
    /\ pre_running' = FALSE
    /\ pre2_grid' = NoGrid
    /\ frame_grid' = grid
    /\ UNCHANGED <<probe, prog, new_grid, row, col, tog_grid, ticks>>

\* if self.is_running: update_grid() calls apply_rules(), which builds new_grid
TickRun ==
    /\ pc = "tick"
    /\ is_running
    /\ pc' = "apply"
    /\ new_grid' = make_clear_grid(grid_size)
    /\ row' = 0
    /\ col' = 0
    /\ UNCHANGED <<probe, prog, event, hist>>

\* the frame's update without the test of is_running
TickSkip_updates ==
    /\ pc = "tick"
    /\ ~is_running
    /\ pc' = "apply"
    /\ new_grid' = make_clear_grid(grid_size)
    /\ row' = 0
    /\ col' = 0
    /\ UNCHANGED <<probe, prog, event, hist>>

\* if self.is_running: false
TickSkip ==
    /\ pc = "tick"
    /\ ~is_running
    /\ pc' = "draw"
    /\ UNCHANGED <<probe, prog, event, new_grid, row, col, hist>>

\* apply_rules with new_grid = self.grid: each cell is written in place
ApplyCell_in_place ==
    /\ pc = "apply"
    /\ row < grid_size
    /\ LET neighbors == count_neighbors(grid, grid_size, row, col)
           cell == grid[row][col]
       IN  /\ grid' = [grid EXCEPT ![row][col] = apply_rule(cell, neighbors)]
           /\ new_grid' = grid'
    /\ IF col + 1 < grid_size
       THEN row' = row /\ col' = col + 1
       ELSE row' = row + 1 /\ col' = 0
    /\ UNCHANGED <<probe, grid_size, cell_size, window_alive, is_running,
                   pc, event, hist>>

\* apply_rules that copies the cells once the window was closed
ApplyCell_frozen_after_quit ==
    /\ pc = "apply"
    /\ row < grid_size
    /\ LET neighbors == count_neighbors(grid, grid_size, row, col)
           cell == grid[row][col]
       IN  new_grid' = [new_grid EXCEPT ![row][col] =
                           IF window_alive THEN apply_rule(cell, neighbors) ELSE cell]
    /\ IF col + 1 < grid_size
       THEN row' = row /\ col' = col + 1
       ELSE row' = row + 1 /\ col' = 0
    /\ UNCHANGED <<probe, prog, pc, event, hist>>

\* one iteration of the inner loop of apply_rules
ApplyCell ==
    /\ pc = "apply"
    /\ row < grid_size
    /\ LET neighbors == count_neighbors(grid, grid_size, row, col)
           cell == grid[row][col]
       IN  new_grid' = [new_grid EXCEPT ![row][col] = apply_rule(cell, neighbors)]
    /\ IF col + 1 < grid_size
       THEN row' = row /\ col' = col + 1
       ELSE row' = row + 1 /\ col' = 0
    /\ UNCHANGED <<probe, prog, pc, event, hist>>

\* the update indented into the for loop: the next event follows it
UpdateGrid_in_event_loop ==
    /\ pc = "apply"
    /\ row = grid_size
    /\ grid' = new_grid
    /\ pc' = "events"
    /\ new_grid' = NoGrid
    /\ row' = 0
    /\ col' = 0
    /\ ticks' = ticks + 1
    /\ UNCHANGED <<probe, grid_size, cell_size, window_alive, is_running, event,
                   pre_grid, pre_running, pre2_grid, frame_grid, tog_grid>>

\* apply_rules returns new_grid and update_grid assigns it to self.grid
UpdateGrid ==
    /\ pc = "apply"
    /\ row = grid_size
    /\ grid' = new_grid
    /\ pc' = "draw"
    /\ new_grid' = NoGrid
    /\ row' = 0
    /\ col' = 0
    /\ ticks' = ticks + 1
    /\ UNCHANGED <<probe, grid_size, cell_size, window_alive, is_running, event,
                   pre_grid, pre_running, pre2_grid, frame_grid, tog_grid>>

\* draw_toolbar, draw_grid, display.flip, clock.tick: back to the loop test
Draw ==
    /\ pc = "draw"
    /\ pc' = "while"
    /\ UNCHANGED <<probe, prog, event, new_grid, row, col, hist>>

Next ==
    \/ WhileEnter
    \/ WhileExit
    \/ DispatchQuit
    \/ DispatchMouse
    \/ DispatchOther
    \/ EventsDone
    \/ TickRun
    \/ TickSkip
    \/ ApplyCell
    \/ UpdateGrid
    \/ Draw

Spec == Init /\ [][Next]_vars

(***************************************************************************)
(* run() under the scheduling the code guarantees: the list returned by    *)
(* pygame.event.get() is finite, so the for loop comes to its end, and the *)
(* statements after it (the update, the drawing, the loop test) run one    *)
(* after the other without waiting for anything.                           *)
(***************************************************************************)
\* a step of the frame after the for loop, up to the exit of the while loop
FrameStep ==
    \/ TickRun
    \/ TickSkip
    \/ ApplyCell
    \/ UpdateGrid
    \/ Draw
    \/ WhileExit

SpecLive == Spec /\ WF_vars(EventsDone) /\ WF_vars(FrameStep)

(***************************************************************************)
(* The known patterns on grids of 5 x 5 and more.  The 2^25 grids of that   *)
(* size cannot be enumerated, so this specification starts run() on a      *)
(* grid the user has drawn (cell clicks while STOPPED reach every grid)    *)
(* and feeds it the clicks of the toolbar only: Start, Pause, End, misses. *)
(***************************************************************************)
MaxPatternGridSize == 5

PatternGridSizes == 5..MaxPatternGridSize

\* the grid of n x n whose ALIVE cells are those of the set alive
GridOf(n, alive) ==
    [r \in 0..(n - 1) |-> [c \in 0..(n - 1) |-> IF <<r, c>> \in alive THEN 1 ELSE 0]]

\* the 2x2 block at rows 1-2 / cols 1-2
BlockGrid(n) == GridOf(n, {<<1, 1>>, <<1, 2>>, <<2, 1>>, <<2, 2>>})

\* the horizontal and the vertical line of 3 cells centred at (r, c)
HLineGrid(n, r, c) == GridOf(n, {<<r, c - 1>>, <<r, c>>, <<r, c + 1>>})

VLineGrid(n, r, c) == GridOf(n, {<<r - 1, c>>, <<r, c>>, <<r + 1, c>>})

\* the centres at which both lines lie inside the grid
LineCentres(n) == (1..(n - 2)) \X (1..(n - 2))

SingleCellGrid(n, r, c) == GridOf(n, {<<r, c>>})

PatternGrids(n) ==
    {make_clear_grid(n), BlockGrid(n)}
        \cup {HLineGrid(n, rc[1], rc[2]) : rc \in LineCentres(n)}
        \cup {SingleCellGrid(n, r, c) : r \in 0..(n - 1), c \in 0..(n - 1)}

InitPattern ==
    /\ grid_size \in PatternGridSizes
    /\ cell_size \in CellSizes
    /\ grid \in PatternGrids(grid_size)
    /\ window_alive = TRUE
    /\ is_running = FALSE
    /\ pc = "while"
    /\ event = NoEvent
    /\ new_grid = NoGrid
    /\ row = 0
    /\ col = 0
    /\ probe = NoProbe
    /\ pre_grid = NoGrid
    /\ pre_running = FALSE
    /\ pre2_grid = NoGrid
    /\ frame_grid = NoGrid
    /\ tog_grid = NoGrid
    /\ ticks = 0

\* the for loop takes a MOUSEBUTTONDOWN event at a pixel (x, y) of the toolbar
DispatchToolbarClick ==
    /\ pc = "events"
    /\ \E x \in ClickXs, y \in {yy \in ClickYs : yy < TOOLBAR_HEIGHT} :
          /\ event' = MouseEvent(x, y)
          /\ handle_mouse_click(x, y)
    /\ tog_grid' = NoGrid
    /\ pre2_grid' = NoGrid
    /\ pre_grid' = grid
    /\ pre_running' = is_running
    /\ UNCHANGED <<probe, grid_size, cell_size, window_alive, pc,
                   new_grid, row, col, frame_grid, ticks>>

NextPattern ==
    \/ WhileEnter
    \/ WhileExit
    \/ DispatchQuit
    \/ DispatchToolbarClick
    \/ DispatchOther
    \/ EventsDone
    \/ TickRun
    \/ TickSkip
    \/ ApplyCell
    \/ UpdateGrid
    \/ Draw

SpecPattern == InitPattern /\ [][NextPattern]_vars

(***************************************************************************)
(* Construction with any grid_size, zero and negative included.  __init__  *)
(* tests neither argument.  pygame.display.set_mode raises pygame.error    *)
(* for a negative width or height and takes a width of 0 (the window then  *)
(* gets the width of the screen); range() of a number <= 0 is empty, so    *)
(* make_clear_grid returns the empty list.  pc = "error": __init__ raised  *)
(* and no object exists.                                                   *)
(***************************************************************************)
CtorGridSizes == {-1, 0, 1, 2}

\* self.width and self.height as __init__ computes them
window_width(n, cs) == n * cs

window_height(n, cs) == n * cs + TOOLBAR_HEIGHT

\* pygame.display.set_mode((width, height)) raises
set_mode_raises(w, h) == w < 0 \/ h < 0

InitCtor ==
    /\ grid_size \in CtorGridSizes
    /\ cell_size \in CellSizes
    /\ IF set_mode_raises(window_width(grid_size, cell_size),
                          window_height(grid_size, cell_size))
       THEN /\ pc = "error"
            /\ grid = NoGrid
       ELSE /\ pc = "while"
            /\ grid = initialize_grid(grid_size)
    /\ window_alive = TRUE
    /\ is_running = FALSE
    /\ event = NoEvent
    /\ new_grid = NoGrid
    /\ row = 0
    /\ col = 0
    /\ probe = NoProbe
    /\ pre_grid = NoGrid
    /\ pre_running = FALSE
    /\ pre2_grid = NoGrid
    /\ frame_grid = NoGrid
    /\ tog_grid = NoGrid
    /\ ticks = 0

SpecCtor == InitCtor /\ [][Next]_vars

(***************************************************************************)
(* The methods called directly, by a client that never enters run(): the   *)
(* client draws a grid with handle_grid_click and asks count_neighbors for *)
(* the count at any row and column, out-of-range ones included.            *)
(***************************************************************************)
\* the rows and columns the client passes: one beyond the grid on each side
ProbeArgs == -1..grid_size

\* self.handle_grid_click(x, y)
ApiHandleGridClick ==
    /\ pc = "while"
    /\ \E x \in ClickXs, y \in ClickYs : handle_grid_click(x, y)
    /\ probe' = NoProbe
    /\ UNCHANGED <<grid_size, cell_size, window_alive, pc, event,
                   new_grid, row, col, hist>>

\* self.count_neighbors(r, c): no test of r or c, the value of count is returned
ApiCountNeighbors ==
    /\ pc = "while"
    /\ \E r \in ProbeArgs, c \in ProbeArgs :
          probe' = [called |-> TRUE, row |-> r, col |-> c,
                    result |-> count_neighbors(grid, grid_size, r, c)]
    /\ UNCHANGED <<prog, pc, event, new_grid, row, col, hist>>

NextApi ==
    \/ ApiHandleGridClick
    \/ ApiCountNeighbors

SpecApi == Init /\ [][NextApi]_vars

(***************************************************************************)
(* What the properties below are stated with.                              *)
(***************************************************************************)
Cells == (0..(grid_size - 1)) \X (0..(grid_size - 1))

\* the 8 offset pairs of the Moore neighbourhood
Offsets ==
    {<<-1, -1>>, <<-1, 0>>, <<-1, 1>>, <<0, -1>>,
     <<0, 1>>, <<1, -1>>, <<1, 0>>, <<1, 1>>}

\* the number of offset pairs whose wrapped cell is ALIVE in g
AliveNeighbours(g, n, r, c) ==
    Cardinality({o \in Offsets : g[(r + o[1]) % n][(c + o[2]) % n] = 1})

\* the rule for one cell of g
NextCellValue(g, n, r, c) ==
    LET k == AliveNeighbours(g, n, r, c)
    IN  CASE g[r][c] = 1 /\ (k < 2 \/ k > 3) -> 0
          [] g[r][c] = 0 /\ k = 3 -> 1
          [] OTHER -> g[r][c]

\* the rule applied to every cell of g at once
nextGeneration(g, n) ==
    [r \in 0..(n - 1) |-> [c \in 0..(n - 1) |-> NextCellValue(g, n, r, c)]]

AliveCount(g) == Cardinality({rc \in Cells : g[rc[1]][rc[2]] = 1})

\* g is n rows of n cells, each 0 or 1
IsGrid(g, n) ==
    /\ DOMAIN g = 0..(n - 1)
    /\ \A r \in 0..(n - 1) :
          /\ DOMAIN g[r] = 0..(n - 1)
          /\ \A c \in 0..(n - 1) : g[r][c] \in {0, 1}

AllDead(g, n) ==
    /\ IsGrid(g, n)
    /\ \A r \in 0..(n - 1), c \in 0..(n - 1) : g[r][c] = 0

\* the event just dispatched is a click on the named button
ClickedButton(name) ==
    /\ pc = "events"
    /\ event.type = "MOUSEBUTTONDOWN"
    /\ event.y < TOOLBAR_HEIGHT
    /\ collidepoint(initialize_buttons[name], event.x, event.y)

\* the event just dispatched is a click that maps to a cell of the grid
ClickedCell ==
    /\ pc = "events"
    /\ event.type = "MOUSEBUTTONDOWN"
    /\ event.y >= TOOLBAR_HEIGHT
    /\ in_grid(click_row(event.y), click_col(event.x))

\* apply_rules has finished its pass and is about to return new_grid
PassComplete == pc = "apply" /\ row = grid_size

(***************************************************************************)
(* C1: the grid apply_rules returns holds at every cell: DEAD if the cell  *)
(* is ALIVE with fewer than 2 or more than 3 alive toroidal neighbours,    *)
(* ALIVE if it is DEAD with exactly 3, and the cell's current value        *)
(* otherwise.                                                              *)
(***************************************************************************)
C1_ApplyRulesFollowsTheRules ==
    PassComplete =>
        \A rc \in Cells :
            new_grid[rc[1]][rc[2]] = NextCellValue(grid, grid_size, rc[1], rc[2])

\* a pass over a 3x3 grid of 3 alive cells: the 3 survive and the 6 are born
C1_Witness ==
    /\ PassComplete
    /\ grid_size = 3
    /\ AliveCount(grid) = 3
    /\ \A rc \in Cells : new_grid[rc[1]][rc[2]] = 1

(***************************************************************************)
(* C2: while apply_rules iterates, self.grid is never modified: it stays   *)
(* the grid the frame's events left, every cell already computed was       *)
(* computed from that grid, the writes go to new_grid, and the grid is     *)
(* replaced only as a whole, by new_grid, once the pass is complete.       *)
(***************************************************************************)
Processed(rc) == rc[1] < row \/ (rc[1] = row /\ rc[2] < col)

C2_ReadsOldGrid ==
    pc = "apply" =>
        /\ grid = frame_grid
        /\ \A rc \in Cells :
              Processed(rc) =>
                  new_grid[rc[1]][rc[2]]
                      = NextCellValue(frame_grid, grid_size, rc[1], rc[2])

C2_ReplacedAsAWhole ==
    pc = "apply" =>
        \/ grid' = grid
        \/ PassComplete /\ grid' = new_grid /\ pc' = "draw"

C2_GridNotModifiedDuringPass ==
    [] C2_ReadsOldGrid /\ [][C2_ReplacedAsAWhole]_vars

\* mid-pass, a processed cell already differs in new_grid, the grid untouched
C2_Witness ==
    /\ pc = "apply"
    /\ 0 < row /\ row < grid_size
    /\ grid = frame_grid
    /\ \E rc \in Cells : Processed(rc) /\ new_grid[rc[1]][rc[2]] # grid[rc[1]][rc[2]]

(***************************************************************************)
(* C3: count_neighbors(row, col) is the number of the 8 offset pairs whose *)
(* cell, wrapped modulo N, is ALIVE; it lies in 0..8; and an ALIVE cell on *)
(* one edge is counted by the cell facing it on the opposite edge.         *)
(***************************************************************************)
C3_CountNeighborsToroidal ==
    \A rc \in Cells :
        LET k == count_neighbors(grid, grid_size, rc[1], rc[2])
            last == grid_size - 1
        IN  /\ k = AliveNeighbours(grid, grid_size, rc[1], rc[2])
            /\ k \in 0..8
            /\ (rc[1] = last /\ grid[0][rc[2]] = 1) => k >= 1
            /\ (rc[1] = 0 /\ grid[last][rc[2]] = 1) => k >= 1
            /\ (rc[2] = last /\ grid[rc[1]][0] = 1) => k >= 1
            /\ (rc[2] = 0 /\ grid[rc[1]][last] = 1) => k >= 1

\* apply_rules is at a bottom-row cell whose only alive neighbour is across
\* the edge, in the top row
C3_Witness ==
    /\ pc = "apply"
    /\ grid_size = 3
    /\ row = 2
    /\ AliveCount(grid) = 1
    /\ grid[0][col] = 1
    /\ count_neighbors(grid, grid_size, row, col) = 1

(***************************************************************************)
(* C4: while the simulation is STOPPED, the frame's update step and every  *)
(* other step of the loop outside the dispatch of events leave the grid    *)
(* unchanged, whatever the grid holds.                                     *)
(***************************************************************************)
C4_TickWhileStoppedStep ==
    (~is_running /\ pc \in {"tick", "apply", "draw", "while"}) =>
        /\ grid' = grid
        /\ pc = "tick" => pc' = "draw"

C4_TickWhileStoppedIsNoOp == [][C4_TickWhileStoppedStep]_vars

\* a STOPPED frame is past its update step with a grid one generation would
\* have changed
C4_Witness ==
    /\ pc = "draw"
    /\ ~is_running
    /\ ticks = 0
    /\ grid = frame_grid
    /\ nextGeneration(grid, grid_size) # grid

(***************************************************************************)
(* C5: after end_simulation, from RUNNING or STOPPED and with any grid,    *)
(* the run state is STOPPED and the grid is N x N with every cell DEAD.    *)
(***************************************************************************)
C5_EndStopsAndClears ==
    ClickedButton("End") =>
        /\ ~is_running
        /\ AllDead(grid, grid_size)

\* End was clicked while RUNNING with alive cells
C5_Witness ==
    /\ ClickedButton("End")
    /\ pre_running
    /\ grid_size = 3
    /\ AliveCount(pre_grid) >= 1
    /\ AllDead(grid, grid_size)

(***************************************************************************)
(* C6: start_simulation leaves the run state RUNNING and pause_simulation  *)
(* leaves it STOPPED, whatever it was before, and neither changes a cell.  *)
(***************************************************************************)
C6_StartPauseSetRunState ==
    /\ ClickedButton("Start") => (is_running /\ grid = pre_grid)
    /\ ClickedButton("Pause") => (~is_running /\ grid = pre_grid)

\* Pause was clicked while already STOPPED, with alive cells
C6_Witness ==
    /\ ClickedButton("Pause")
    /\ ~pre_running
    /\ ~is_running
    /\ AliveCount(grid) >= 1

(***************************************************************************)
(* C7: in every reachable state the grid is exactly N rows of exactly N    *)
(* cells, N >= 1 the size given at construction, and every cell is 0 or 1. *)
(***************************************************************************)
C7_GridIsNByNOfCells ==
    /\ grid_size >= 1
    /\ IsGrid(grid, grid_size)

\* a frame that saw a toggle while RUNNING has replaced the grid
C7_Witness ==
    /\ pc = "draw"
    /\ ticks = 1
    /\ grid_size = 3
    /\ tog_grid # NoGrid
    /\ AliveCount(grid) >= 1
    /\ IsGrid(grid, grid_size)

(***************************************************************************)
(* C8: a click on an in-range cell flips exactly that cell and leaves      *)
(* every other cell and the run state unchanged; the same click a second   *)
(* time in succession restores the grid of before the first.               *)
(***************************************************************************)
C8_ToggleFlipsOneCell ==
    ClickedCell =>
        LET r == click_row(event.y)
            c == click_col(event.x)
        IN  /\ grid[r][c] = 1 - pre_grid[r][c]
            /\ \A rc \in Cells : rc # <<r, c>> => grid[rc[1]][rc[2]] = pre_grid[rc[1]][rc[2]]
            /\ is_running = pre_running
            /\ pre2_grid # NoGrid => grid = pre2_grid

\* the same cell was clicked twice in succession among other alive cells
C8_Witness ==
    /\ ClickedCell
    /\ pre2_grid # NoGrid
    /\ grid = pre2_grid
    /\ grid # pre_grid
    /\ AliveCount(grid) >= 2

(***************************************************************************)
(* C9: in every frame the events are dispatched first and the grid is      *)
(* advanced only after them: by exactly one generation if the run state    *)
(* the events left is RUNNING, not at all if it is STOPPED; never twice in *)
(* a frame and never between two events of a frame.                        *)
(***************************************************************************)
C9_OneTickAfterTheEvents ==
    /\ ticks <= 1
    /\ pc = "events" => ticks = 0
    /\ pc \in {"tick", "apply"} => (ticks = 0 /\ grid = frame_grid)
    /\ (pc \in {"draw", "while", "done"} /\ frame_grid # NoGrid) =>
          IF is_running
          THEN ticks = 1 /\ grid = nextGeneration(frame_grid, grid_size)
          ELSE ticks = 0 /\ grid = frame_grid

\* a RUNNING frame has advanced the grid its events left, and changed it
C9_Witness ==
    /\ pc = "draw"
    /\ is_running
    /\ ticks = 1
    /\ grid # frame_grid
    /\ AliveCount(grid) >= 1

(***************************************************************************)
(* C10: a click on a cell is taken in RUNNING and in STOPPED alike; after  *)
(* a toggle dispatched while RUNNING, the frame's tick leaves the grid     *)
(* equal to the next generation of the toggled grid.                       *)
(***************************************************************************)
C10_ToggleWhileRunningFeedsTheTick ==
    /\ ClickedCell =>
          /\ grid = toggle_cell(pre_grid, click_row(event.y), click_col(event.x))
          /\ pre_running => tog_grid = grid
    /\ (pc = "draw" /\ tog_grid # NoGrid) =>
          /\ ticks = 1
          /\ grid = nextGeneration(tog_grid, grid_size)

\* the tick after a toggle while RUNNING has produced a different grid
C10_Witness ==
    /\ pc = "draw"
    /\ tog_grid # NoGrid
    /\ grid_size = 3
    /\ grid # tog_grid
    /\ grid = nextGeneration(tog_grid, grid_size)

(***************************************************************************)
(* C11: on a grid of N >= 5 whose only ALIVE cells are the 2x2 block at    *)
(* rows 1-2 / cols 1-2, every block cell has exactly 3 alive neighbours,   *)
(* apply_rules returns the identical grid, and the grid stays the block    *)
(* under any number of ticks while RUNNING.                                *)
(***************************************************************************)
C11_BlockCellsHaveThreeNeighbours ==
    (grid_size >= 5 /\ grid = BlockGrid(grid_size)) =>
        /\ \A r \in {1, 2}, c \in {1, 2} :
              count_neighbors(grid, grid_size, r, c) = 3
        /\ PassComplete => new_grid = grid

\* no step of the frame loop after the events takes the grid off the block
C11_BlockStaysStep ==
    (grid_size >= 5 /\ grid = BlockGrid(grid_size) /\ pc # "events") =>
        grid' = grid

C11_BlockIsStillLife ==
    [] C11_BlockCellsHaveThreeNeighbours /\ [][C11_BlockStaysStep]_vars

\* a RUNNING frame has ticked the block and the grid is still the block
C11_Witness ==
    /\ pc = "draw"
    /\ is_running
    /\ ticks = 1
    /\ grid_size >= 5
    /\ frame_grid = BlockGrid(grid_size)
    /\ grid = BlockGrid(grid_size)

(***************************************************************************)
(* C12: on a grid of N >= 5 whose only ALIVE cells are the horizontal line *)
(* (r, c-1), (r, c), (r, c+1), one generation yields the grid whose only   *)
(* ALIVE cells are the vertical line (r-1, c), (r, c), (r+1, c), and the   *)
(* next generation yields the horizontal grid again.                       *)
(***************************************************************************)
\* the frame's tick has taken the grid from g to h
Ticked(g, h) == (pc = "draw" /\ ticks = 1 /\ frame_grid = g) => grid = h

C12_BlinkerHasPeriodTwo ==
    grid_size >= 5 =>
        \A rc \in LineCentres(grid_size) :
            LET h == HLineGrid(grid_size, rc[1], rc[2])
                v == VLineGrid(grid_size, rc[1], rc[2])
            IN  /\ (PassComplete /\ grid = h) => new_grid = v
                /\ (PassComplete /\ grid = v) => new_grid = h
                /\ Ticked(h, v)
                /\ Ticked(v, h)

\* the second tick has turned the vertical line back into the horizontal one
C12_Witness ==
    /\ pc = "draw"
    /\ ticks = 1
    /\ grid_size >= 5
    /\ \E rc \in LineCentres(grid_size) :
          /\ frame_grid = VLineGrid(grid_size, rc[1], rc[2])
          /\ grid = HLineGrid(grid_size, rc[1], rc[2])

(***************************************************************************)
(* C13: the grid apply_rules returns is a function of the current grid     *)
(* only: in every run, whatever events and ticks led to the grid and       *)
(* whatever else the state holds, the returned grid is the one and the     *)
(* same function nextGeneration of the current grid, so two runs holding   *)
(* the same grid get the same next grid.                                   *)
(***************************************************************************)
C13_NextGridDependsOnGridOnly ==
    PassComplete => new_grid = nextGeneration(grid, grid_size)

\* a pass completed in a run whose window was already closed, on a grid the
\* rules change
C13_Witness ==
    /\ PassComplete
    /\ ~window_alive
    /\ grid_size = 3
    /\ new_grid # grid
    /\ new_grid = nextGeneration(grid, grid_size)

(***************************************************************************)
(* C14: construction with a grid dimension <= 0 is rejected with an error: *)
(* for grid_size <= 0 no simulation state (grid, run state) is created.    *)
(***************************************************************************)
C14_NonPositiveSizeRejected ==
    grid_size <= 0 => pc = "error"

(***************************************************************************)
(* C15: an out-of-range row or column passed to count_neighbors is a       *)
(* checked precondition violation: the call is rejected, it returns no     *)
(* count (a count is a number in 0..8), in particular not the count of the *)
(* in-range cell the index wraps onto.                                     *)
(***************************************************************************)
C15_OutOfRangeCountRejected ==
    (probe.called /\ ~in_grid(probe.row, probe.col)) =>
        probe.result \notin 0..8

(***************************************************************************)
(* C16: a click below the toolbar whose pixel maps, by                     *)
(* row = (y - TOOLBAR_HEIGHT) div cell_size and col = x div cell_size, to  *)
(* a row or column outside 0..N-1 changes no cell and not the run state:   *)
(* it is not wrapped onto a cell of the grid.                              *)
(***************************************************************************)
\* the event just dispatched is a click below the toolbar that maps off the grid
ClickedOffGrid ==
    /\ pc = "events"
    /\ event.type = "MOUSEBUTTONDOWN"
    /\ event.y >= TOOLBAR_HEIGHT
    /\ LET r == (event.y - TOOLBAR_HEIGHT) \div cell_size
           c == event.x \div cell_size
       IN  r \notin 0..(grid_size - 1) \/ c \notin 0..(grid_size - 1)

C16_OffGridClickChangesNothing ==
    ClickedOffGrid =>
        /\ grid = pre_grid
        /\ is_running = pre_running

\* a click left of column 0, in a grid row, on a RUNNING grid with alive cells
C16_Witness ==
    /\ ClickedOffGrid
    /\ event.x < 0
    /\ event.y < TOOLBAR_HEIGHT + grid_size * cell_size
    /\ grid_size = 3
    /\ is_running
    /\ AliveCount(grid) >= 1
    /\ grid = pre_grid

(***************************************************************************)
(* C17: the run starts STOPPED with an all-DEAD grid, and an all-DEAD grid *)
(* (at construction, and again after every reset) stays all DEAD through   *)
(* every start, pause, reset and tick: only a cell toggle ends it.         *)
(***************************************************************************)
\* this step dispatches a click that maps to a cell of the grid
CellToggleStep ==
    /\ pc = "events"
    /\ pc' = "events"
    /\ event'.type = "MOUSEBUTTONDOWN"
    /\ event'.y >= TOOLBAR_HEIGHT
    /\ in_grid(click_row(event'.y), click_col(event'.x))

C17_AllDeadStaysStep ==
    (AllDead(grid, grid_size) /\ ~CellToggleStep) => AllDead(grid', grid_size)

C17_AllDeadIsFixedPoint ==
    /\ ~is_running /\ AllDead(grid, grid_size)
    /\ [][C17_AllDeadStaysStep]_vars

\* a RUNNING frame has ticked an all-DEAD 3x3 grid and it is still all DEAD
C17_Witness ==
    /\ pc = "draw"
    /\ is_running
    /\ ticks = 1
    /\ grid_size = 3
    /\ AllDead(frame_grid, grid_size)
    /\ AllDead(grid, grid_size)

(***************************************************************************)
(* C18: for N >= 3 the 8 wrapped positions count_neighbors reads for a     *)
(* cell are pairwise distinct and none is the cell itself, so the count is *)
(* the number of distinct ALIVE neighbouring cells; a grid with a single   *)
(* ALIVE cell has count 0 at that cell and is all DEAD after one           *)
(* generation.                                                             *)
(***************************************************************************)
C18_NeighboursDistinctAndNotSelf ==
    grid_size >= 3 =>
        \A rc \in Cells :
            LET pos == neighbor_positions(grid_size, rc[1], rc[2])
                cells == {pos[i] : i \in DOMAIN pos}
                k == count_neighbors(grid, grid_size, rc[1], rc[2])
            IN  /\ Len(pos) = 8
                /\ Cardinality(cells) = 8
                /\ rc \notin cells
                /\ k = Cardinality({p \in cells : grid[p[1]][p[2]] = 1})
                /\ (AliveCount(grid) = 1 /\ grid[rc[1]][rc[2]] = 1) =>
                      /\ k = 0
                      /\ PassComplete => AllDead(new_grid, grid_size)

\* a pass over a 3x3 grid with a single ALIVE cell has returned an all-DEAD grid
C18_Witness ==
    /\ PassComplete
    /\ grid_size = 3
    /\ AliveCount(grid) = 1
    /\ AllDead(new_grid, grid_size)

(***************************************************************************)
(* C19: a mouse click goes to exactly one handler, chosen by its y.  With  *)
(* y < TOOLBAR_HEIGHT it hits at most one button and executes that         *)
(* button's command and nothing else (nothing at all if it hits none), so  *)
(* it changes cells only through End.  With y >= TOOLBAR_HEIGHT it toggles *)
(* at most one cell and never changes the run state.                       *)
(***************************************************************************)
\* the event just dispatched is a mouse click
Clicked == pc = "events" /\ event.type = "MOUSEBUTTONDOWN"

\* the buttons whose rectangle holds the click
ButtonsHit ==
    {b \in {"Start", "Pause", "End"} :
        collidepoint(initialize_buttons[b], event.x, event.y)}

CellsChanged == {rc \in Cells : grid[rc[1]][rc[2]] # pre_grid[rc[1]][rc[2]]}

C19_ClickRoutedByY ==
    Clicked =>
        IF event.y < TOOLBAR_HEIGHT
        THEN /\ Cardinality(ButtonsHit) <= 1
             /\ ButtonsHit = {} => (grid = pre_grid /\ is_running = pre_running)
             /\ ButtonsHit = {"Start"} => (grid = pre_grid /\ is_running)
             /\ ButtonsHit = {"Pause"} => (grid = pre_grid /\ ~is_running)
             /\ ButtonsHit = {"End"} => (AllDead(grid, grid_size) /\ ~is_running)
             /\ CellsChanged # {} => ButtonsHit = {"End"}
        ELSE /\ is_running = pre_running
             /\ IsGrid(grid, grid_size)
             /\ Cardinality(CellsChanged) <= 1

\* a click in the toolbar above the Pause button, on a RUNNING grid with alive
\* cells: no command ran
C19_Witness ==
    /\ Clicked
    /\ event.y < BUTTON_HEIGHT_PADDING
    /\ event.x = 140
    /\ ButtonsHit = {}
    /\ pre_running
    /\ is_running
    /\ grid_size = 3
    /\ AliveCount(grid) >= 1
    /\ grid = pre_grid

(***************************************************************************)
(* C20: once a QUIT event has been dispatched the frame loop terminates:   *)
(* window_alive is False from then on, the events left in the frame are    *)
(* still dispatched with their effect, the frame's tick still happens if   *)
(* RUNNING, no further frame is started, and after that frame no event is  *)
(* dispatched and no tick occurs.                                          *)
(***************************************************************************)
C20_QuitClearsWindowAlive ==
    /\ (pc = "events" /\ event = QuitEvent) => ~window_alive
    /\ (~window_alive /\ pc \in {"while", "done"}) =>
          IF is_running
          THEN ticks = 1 /\ grid = nextGeneration(frame_grid, grid_size)
          ELSE ticks = 0 /\ grid = frame_grid

C20_AfterQuitStep ==
    /\ ~window_alive => ~window_alive'
    /\ (~window_alive /\ pc = "while") => pc' = "done"
    /\ pc = "done" => vars' = vars
    /\ (~window_alive /\ CellToggleStep) =>
          grid' = toggle_cell(grid, click_row(event'.y), click_col(event'.x))

C20_QuitEndsTheLoop ==
    /\ [] C20_QuitClearsWindowAlive
    /\ [][C20_AfterQuitStep]_vars
    /\ (~window_alive ~> pc = "done")

\* run() has returned after a last frame whose tick changed the grid
C20_Witness ==
    /\ pc = "done"
    /\ ~window_alive
    /\ is_running
    /\ ticks = 1
    /\ grid # frame_grid
    /\ grid = nextGeneration(frame_grid, grid_size)

====
